---- MODULE Spec2Model ----
(***************************************************************************)
(* Model of main() of src/main.go, the configuration generator.            *)
(*                                                                         *)
(* The executable part of main() is lines 38-122: the dry-run test, the    *)
(* creation and rendering of the global file bird.conf, the removal of     *)
(* old AS*.conf files, and the loop that derives each peer's ProtocolName. *)
(* Lines 124-221 (registry enrichment, the AS-SET guard, the per-peer      *)
(* files, the reload of the daemon) are comments in the source: the        *)
(* compiled program executes none of them, and the model has no step for   *)
(* them.                                                                   *)
(*                                                                         *)
(* Strings the program inspects character by character (peer names, file   *)
(* names, AS-SETs) are sequences of one-character strings.                 *)
(***************************************************************************)
EXTENDS Integers, Sequences, FiniteSets, TLC

VARIABLES
    cliFlags,       \* the parsed command line: [DryRun]
    globalConfig,   \* the loaded configuration: BirdDirectory, BirdSocket, Peers
    loadedConfig,   \* history: globalConfig as loadConfig returned it (line 76)
    fs,             \* the filesystem: <<directory, file name>> -> content
    fsInit,         \* history: the filesystem when the run started
    files,          \* the result of filepath.Glob not yet removed (line 99)
    remaining,      \* the keys of globalConfig.Peers the range loop has not visited
    pc,             \* position of main()
    err             \* why the run ended: "" while running or after exit 0

vars == <<cliFlags, globalConfig, loadedConfig, fs, fsInit, files, remaining, pc, err>>

----------------------------------------------------------------------------
(* Bounds *)

MaxOldFiles == 2     \* files present in the two directories before the run
MaxPeers == 2        \* peers declared in the input of a run
MaxNameLen == 2      \* length of a declared peer name (name runs)
MaxNamePeers == 1    \* peers declared in the input of a name run

----------------------------------------------------------------------------
(* Characters and strings *)

\* The characters of the model in ASCII order; Code(c) is the rank of c.
CharOrder ==
    <<" ", "-", ".", "0", "1", "2", "3", "4", "5", "6", "7", "8", "9", ":",
      "A", "B", "C", "D", "E", "F", "G", "H", "I", "J", "K", "L", "M", "N",
      "O", "P", "Q", "R", "S", "T", "U", "V", "W", "X", "Y", "Z", "_",
      "a", "b", "c", "d", "e", "f", "g", "h", "i", "j", "k", "l", "m", "n",
      "o", "p", "q", "r", "s", "t", "u", "v", "w", "x", "y", "z">>

Code(c) == CHOOSE i \in 1..Len(CharOrder) : CharOrder[i] = c

Digits == {"0", "1", "2", "3", "4", "5", "6", "7", "8", "9"}

Letters == {CharOrder[i] : i \in 15..40} \cup {CharOrder[i] : i \in 42..67}

\* unicode.IsDigit(rune(b)) for a byte b: true exactly for '0'..'9'.
IsDigit(c) == c \in Digits

\* The characters of the protocol-name grammar: letters, digits, underscore.
IsIdentChar(c) == c \in Letters \cup Digits \cup {"_"}

\* Lexical order of two strings, as sort.Strings orders them.
RECURSIVE StrLess(_, _)
StrLess(s, t) ==
    IF t = <<>> THEN FALSE
    ELSE IF s = <<>> THEN TRUE
    ELSE IF Head(s) = Head(t) THEN StrLess(Tail(s), Tail(t))
    ELSE Code(Head(s)) < Code(Head(t))

HasPrefix(s, p) == Len(s) >= Len(p) /\ SubSeq(s, 1, Len(p)) = p

HasSuffix(s, p) == Len(s) >= Len(p) /\ SubSeq(s, Len(s) - Len(p) + 1, Len(s)) = p

\* strconv.Itoa for the ASNs of the model (one decimal digit).
Itoa(n) == <<CharOrder[4 + n]>>

----------------------------------------------------------------------------
(* The sanitizer *)

PeerPrefix == <<"P", "E", "E", "R", "_">>

\* sanitize(input): keeps the characters of the identifier grammar, maps a
\* space to an underscore and strips every other character.
RECURSIVE sanitize(_)
sanitize(input) ==
    IF input = <<>> THEN <<>>
    ELSE LET c == Head(input)
             out == IF IsIdentChar(c) THEN <<c>>
                    ELSE IF c = " " THEN <<"_">>
                    ELSE <<>>
         IN  out \o sanitize(Tail(input))

\* The test of line 115 on the first byte of the name.
FirstIsDigit(peerName) == IsDigit(peerName[1])

\* Lines 115-120 for a non-empty peerName (peerName[0] panics on the empty one).
ProtocolNameOf(peerName) ==
    IF FirstIsDigit(peerName)
    THEN PeerPrefix \o sanitize(peerName)
    ELSE sanitize(peerName)

----------------------------------------------------------------------------
(* Files *)

Dirs == {"/etc/bird", "/run/bird"}

\* What a file holds: nothing on disk, what an earlier run or the operator put
\* there, zero bytes, the beginning of a rendering, a complete rendering.
Absent == "absent"
Contents == {"absent", "old", "empty", "partial", "rendered"}

BirdConf == <<"b", "i", "r", "d", ".", "c", "o", "n", "f">>

ConfSuffix == <<".", "c", "o", "n", "f">>

\* The name of a peer's generated file: AS<asn>_<sanitized name>.conf.
PeerFile(asn, peerName) ==
    <<"A", "S">> \o Itoa(asn) \o <<"_">> \o sanitize(peerName) \o ConfSuffix

\* filepath.Match("AS*.conf", name) for a name without a path separator.
MatchesGlob(name) ==
    /\ Len(name) >= 7
    /\ HasPrefix(name, <<"A", "S">>)
    /\ HasSuffix(name, ConfSuffix)

\* The listing of a set of names in lexical order, as filepath.Glob returns it.
RECURSIVE SortedNames(_)
SortedNames(S) ==
    IF S = {} THEN <<>>
    ELSE LET m == CHOOSE x \in S : \A y \in S \ {x} : StrLess(x, y)
         IN  <<m>> \o SortedNames(S \ {m})

----------------------------------------------------------------------------
(* Inputs *)

\* The registry's answer for an ASN: lookup(asn) -> {maxImport4, maxImport6, asSet}.
getPeeringDbData(asn) ==
    IF asn = 1
    THEN [MaxPfx4 |-> 500, MaxPfx6 |-> 50, AsSet |-> <<"R", ":", ":", "F">>]
    ELSE [MaxPfx4 |-> 100, MaxPfx6 |-> 10, AsSet |-> <<>>]

NewPeer(asn, type, asSet, limit4, limit6, noPeeringDb) ==
    [Asn |-> asn, Type |-> type, AsSet |-> asSet, ImportLimit4 |-> limit4,
     ImportLimit6 |-> limit6, NoPeeringDB |-> noPeeringDb, ProtocolName |-> <<>>]

\* The peers an input of a run is drawn from, as loadConfig returns them.
RunPeers ==
    (<<"a">> :> NewPeer(1, "upstream", <<>>, 0, 0, FALSE))
    @@ (<<"1", "b">> :> NewPeer(2, "peer", <<"M">>, 200, 0, FALSE))
    @@ (<<" ", "c">> :> NewPeer(3, "downstream", <<>>, 0, 0, TRUE))
    @@ (<<>> :> NewPeer(4, "upstream", <<>>, 0, 0, TRUE))

OperatorConf == <<"A", "S", "n", "o", "t", "e", ".", "c", "o", "n", "f">>

OperatorText == <<"n", "o", "t", "e", ".", "t", "x", "t">>

\* Every file name of the model.
FileNames ==
    {BirdConf, OperatorConf, OperatorText}
        \cup {PeerFile(RunPeers[n].Asn, n) : n \in DOMAIN RunPeers}

\* The generated per-peer names among them.
PeerFileNames == {PeerFile(RunPeers[n].Asn, n) : n \in DOMAIN RunPeers}

Slots == Dirs \X FileNames

\* A filesystem in which exactly the slots of P hold old content.
OldFs(P) == [s \in Slots |-> IF s \in P THEN "old" ELSE Absent]

NameAlphabet == {"1", "a", "-", " "}

RECURSIVE NamesOfLen(_)
NamesOfLen(k) ==
    IF k = 0 THEN {<<>>}
    ELSE {<<c>> \o n : c \in NameAlphabet, n \in NamesOfLen(k - 1)}

Names == UNION {NamesOfLen(k) : k \in 0..MaxNameLen}

----------------------------------------------------------------------------
(* The state after the command line and the configuration are loaded *)

Subsets(S, k) == {P \in SUBSET S : Cardinality(P) <= k}

Start(flags, config, disk) ==
    /\ cliFlags = flags
    /\ globalConfig = config
    /\ loadedConfig = config
    /\ fs = disk
    /\ fsInit = disk
    /\ files = <<>>
    /\ remaining = DOMAIN config.Peers
    /\ pc = "flags"
    /\ err = ""

\* Runs over every directory pair, every small set of old files and every
\* small subset of RunPeers.
Init ==
    \E dry \in BOOLEAN, dir \in Dirs, sock \in Dirs,
       P \in Subsets(Slots, MaxOldFiles),
       D \in Subsets(DOMAIN RunPeers, MaxPeers) :
        Start([DryRun |-> dry],
              [BirdDirectory |-> dir, BirdSocket |-> sock,
               Peers |-> [n \in D |-> RunPeers[n]]],
              OldFs(P))

\* Name runs: every peer name up to MaxNameLen, over one fixed disk on which
\* the output directory, also given as the socket path, holds one old file.
InitName ==
    \E dry \in BOOLEAN, D \in Subsets(Names, MaxNamePeers) :
        Start([DryRun |-> dry],
              [BirdDirectory |-> "/etc/bird", BirdSocket |-> "/etc/bird",
               Peers |-> [n \in D |-> NewPeer(1, "upstream", <<>>, 0, 0, TRUE)]],
              OldFs({<<"/etc/bird", OperatorConf>>}))

----------------------------------------------------------------------------
(* main() *)

\* WritesEnabled without the test of the flag.
WritesAlways(flags) == TRUE

\* if !cliFlags.DryRun (line 81)
WritesEnabled(flags) == ~flags.DryRun

\* log.Fatal, log.Fatalf: the process exits with status 1.
Fatal(why) ==
    /\ pc' = "fatal"
    /\ err' = why

\* Lines 108-110: a dry run skips the global file and the removal.
SkipWrites ==
    /\ pc = "flags"
    /\ ~WritesEnabled(cliFlags)
    /\ pc' = "loop"
    /\ UNCHANGED <<cliFlags, globalConfig, loadedConfig, fs, fsInit, files, remaining, err>>

\* Lines 84-87: os.Create creates bird.conf in BirdDirectory or truncates it.
CreateGlobalFile ==
    /\ pc = "flags"
    /\ WritesEnabled(cliFlags)
    /\ \E ok \in BOOLEAN :
        IF ok
        THEN /\ fs' = [fs EXCEPT ![<<globalConfig.BirdDirectory, BirdConf>>] = "empty"]
             /\ pc' = "render"
             /\ err' = err
        ELSE /\ Fatal("create")
             /\ fs' = fs
    /\ UNCHANGED <<cliFlags, globalConfig, loadedConfig, fsInit, files, remaining>>

\* Lines 92-95: the template is executed with the file as its writer, so what
\* it produced before an error is already in the file.
ExecuteGlobalTemplate ==
    /\ pc = "render"
    /\ \E ok \in BOOLEAN :
        IF ok
        THEN /\ fs' = [fs EXCEPT ![<<globalConfig.BirdDirectory, BirdConf>>] = "rendered"]
             /\ pc' = "glob"
             /\ err' = err
        ELSE /\ \E written \in {"empty", "partial"} :
                   fs' = [fs EXCEPT ![<<globalConfig.BirdDirectory, BirdConf>>] = written]
             /\ Fatal("template")
    /\ UNCHANGED <<cliFlags, globalConfig, loadedConfig, fsInit, files, remaining>>

\* The directory the pattern of line 99 is joined to.
GlobDirectory(config) == config.BirdSocket

\* Line 99: filepath.Glob(path.Join(globalConfig.BirdSocket, "AS*.conf")).
\* The pattern is well formed for every directory of the model, so the error
\* branch of lines 100-102 is not taken.
GlobOldConfigs ==
    /\ pc = "glob"
    /\ files' = SortedNames({f \in FileNames :
                    /\ fs[<<GlobDirectory(globalConfig), f>>] # Absent
                    /\ MatchesGlob(f)})
    /\ pc' = "remove"
    /\ UNCHANGED <<cliFlags, globalConfig, loadedConfig, fs, fsInit, remaining, err>>

\* Lines 103-106: os.Remove of the next match, fatal when it fails.
RemoveOldConfig ==
    /\ pc = "remove"
    /\ files # <<>>
    /\ \E ok \in BOOLEAN :
        IF ok
        THEN /\ fs' = [fs EXCEPT ![<<GlobDirectory(globalConfig), Head(files)>>] = Absent]
             /\ files' = Tail(files)
             /\ UNCHANGED <<pc, err>>
        ELSE /\ Fatal("remove")
             /\ UNCHANGED <<fs, files>>
    /\ UNCHANGED <<cliFlags, globalConfig, loadedConfig, fsInit, remaining>>

\* Line 107: the end of the removal loop.
RemoveDone ==
    /\ pc = "remove"
    /\ files = <<>>
    /\ pc' = "loop"
    /\ UNCHANGED <<cliFlags, globalConfig, loadedConfig, fs, fsInit, files, remaining, err>>

\* Lines 113-122: one iteration of the range loop, in the order the map yields.
SetProtocolName ==
    /\ pc = "loop"
    /\ \E peerName \in remaining :
        /\ peerName # <<>>
        /\ globalConfig' = [globalConfig EXCEPT
               !.Peers[peerName].ProtocolName = ProtocolNameOf(peerName)]
        /\ remaining' = remaining \ {peerName}
    /\ UNCHANGED <<cliFlags, loadedConfig, fs, fsInit, files, pc, err>>

\* Line 115 for the empty key: peerName[0] is out of range and main panics.
PeerNamePanic ==
    /\ pc = "loop"
    /\ <<>> \in remaining
    /\ pc' = "panic"
    /\ err' = "index out of range"
    /\ UNCHANGED <<cliFlags, globalConfig, loadedConfig, fs, fsInit, files, remaining>>

\* Lines 222-223: the loop is over and main returns, exit status 0.
MainReturns ==
    /\ pc = "loop"
    /\ remaining = {}
    /\ pc' = "done"
    /\ UNCHANGED <<cliFlags, globalConfig, loadedConfig, fs, fsInit, files, remaining, err>>

Next ==
    \/ SkipWrites
    \/ CreateGlobalFile
    \/ ExecuteGlobalTemplate
    \/ GlobOldConfigs
    \/ RemoveOldConfig
    \/ RemoveDone
    \/ SetProtocolName
    \/ PeerNamePanic
    \/ MainReturns

Spec == Init /\ [][Next]_vars

SpecName == InitName /\ [][Next]_vars

----------------------------------------------------------------------------
(* Shapes the properties use *)

TypeOK ==
    /\ cliFlags \in [DryRun : BOOLEAN]
    /\ globalConfig.BirdDirectory \in Dirs
    /\ globalConfig.BirdSocket \in Dirs
    /\ fs \in [Slots -> Contents]
    /\ pc \in {"flags", "render", "glob", "remove", "loop", "done", "fatal", "panic"}
    /\ remaining \subseteq DOMAIN globalConfig.Peers
    /\ \A n \in DOMAIN globalConfig.Peers :
           globalConfig.Peers[n].Type \in {"peer", "downstream", "upstream"}

OutDir == globalConfig.BirdDirectory

Declared == DOMAIN globalConfig.Peers

\* The peers whose loop iteration is over.
Visited == Declared \ remaining

\* The file of a declared peer.
FileOf(n) == PeerFile(globalConfig.Peers[n].Asn, n)

\* Whether some file of the disk holds content.
Present(disk, dir, f) == disk[<<dir, f>>] # Absent

\* No leading digit and no character outside the identifier grammar.
ValidIdentifier(t) ==
    /\ (t # <<>> => ~IsDigit(t[1]))
    /\ \A i \in 1..Len(t) : IsIdentChar(t[i])

\* The part of s before its first space.
RECURSIVE FirstToken(_)
FirstToken(s) ==
    IF s = <<>> \/ Head(s) = " " THEN <<>>
    ELSE <<Head(s)>> \o FirstToken(Tail(s))

\* The part of s after its first "::", or s when it has none.
RECURSIVE AfterScopeFrom(_, _)
AfterScopeFrom(s, whole) ==
    IF Len(s) < 2 THEN whole
    ELSE IF SubSeq(s, 1, 2) = <<":", ":">> THEN SubSeq(s, 3, Len(s))
    ELSE AfterScopeFrom(Tail(s), whole)

AfterScope(s) == AfterScopeFrom(s, s)

\* The AS-SET the three resolution steps give for a registry value.
ResolvedAsSet(registryValue, asn) ==
    LET r == AfterScope(FirstToken(registryValue))
    IN  IF r = <<>> THEN <<"A", "S">> \o Itoa(asn) ELSE r

----------------------------------------------------------------------------
(* Properties *)

\* C1: a run with the dry-run flag set creates, truncates, writes and deletes
\* no file: in every state of the run the filesystem is the one the run started with.
C1_DryRunFrame == cliFlags.DryRun => fs = fsInit

\* A dry run that returned after visiting a peer, with an old bird.conf in the
\* output directory and an old AS*.conf file in the directory the removal globs.
C1_Witness ==
    /\ cliFlags.DryRun
    /\ pc = "done"
    /\ Visited # {}
    /\ fs[<<OutDir, BirdConf>>] = "old"
    /\ \E f \in FileNames : MatchesGlob(f) /\ Present(fs, GlobDirectory(globalConfig), f)

\* C2: after a run without dry-run that returns successfully, the generated
\* per-peer files in the output directory are exactly the files of the declared peers.
C2_Reconciled ==
    (pc = "done" /\ ~cliFlags.DryRun) =>
        {f \in PeerFileNames : Present(fs, OutDir, f)} = {FileOf(n) : n \in Declared}

\* C3: after a successful run without dry-run, the old file of every peer that
\* is no longer declared is gone from the output directory, nothing but
\* generated per-peer files of the output directory has been deleted, and the
\* global file and the files of the declared peers are present.
C3_StaleRemoved ==
    (pc = "done" /\ ~cliFlags.DryRun) =>
        /\ \A n \in DOMAIN RunPeers \ Declared :
               ~Present(fs, OutDir, PeerFile(RunPeers[n].Asn, n))
        /\ \A s \in Slots :
               (fsInit[s] # Absent /\ fs[s] = Absent) =>
                   (s[1] = OutDir /\ s[2] \in PeerFileNames)
        /\ Present(fs, OutDir, BirdConf)
        /\ \A n \in Declared : Present(fs, OutDir, FileOf(n))

\* C4: a run whose input declares a peer of type peer or downstream with an
\* empty AS-SET ends with a fatal error: it never returns successfully.
C4_UnfilteredGuard ==
    (\E n \in Declared :
        /\ globalConfig.Peers[n].Type \in {"peer", "downstream"}
        /\ globalConfig.Peers[n].AsSet = <<>>)
    => pc # "done"

\* C5: when the rendering of the global artifact has failed, the output
\* directory holds no truncated or partially written bird.conf.
C5_RenderAtomic ==
    err = "template" => fs[<<OutDir, BirdConf>>] \notin {"empty", "partial"}

\* C6: after the run, an import limit and an AS-SET the operator set are the
\* loaded ones, and an import limit the operator left at zero is the registry's
\* value for every peer that has not opted out.
C6_ExplicitWins ==
    pc = "done" =>
        \A n \in Declared :
            LET before == loadedConfig.Peers[n]
                after == globalConfig.Peers[n]
                registry == getPeeringDbData(before.Asn)
            IN  /\ before.ImportLimit4 # 0 => after.ImportLimit4 = before.ImportLimit4
                /\ before.ImportLimit6 # 0 => after.ImportLimit6 = before.ImportLimit6
                /\ before.AsSet # <<>> => after.AsSet = before.AsSet
                /\ (~before.NoPeeringDB /\ before.ImportLimit4 = 0)
                       => after.ImportLimit4 = registry.MaxPfx4
                /\ (~before.NoPeeringDB /\ before.ImportLimit6 = 0)
                       => after.ImportLimit6 = registry.MaxPfx6

\* C7: after the run, the AS-SET of a peer that has not opted out and has no
\* manual AS-SET is the registry value's first token, cut after "::", or
\* AS<asn> when that is empty; it is never empty.
C7_AsSetResolved ==
    pc = "done" =>
        \A n \in Declared :
            LET before == loadedConfig.Peers[n]
                after == globalConfig.Peers[n]
            IN  (~before.NoPeeringDB /\ before.AsSet = <<>>) =>
                    /\ after.AsSet = ResolvedAsSet(getPeeringDbData(before.Asn).AsSet, before.Asn)
                    /\ after.AsSet # <<>>

\* C8: deriving the protocol name of a derived protocol name gives it back
\* (it can be derived at all, being non-empty), and the protocol name of a name
\* that begins with a digit begins with PEER_.
C8_Idempotent ==
    \A n \in Visited :
        LET t == globalConfig.Peers[n].ProtocolName
        IN  /\ IsDigit(n[1]) => HasPrefix(t, PeerPrefix)
            /\ t # <<>>
            /\ ProtocolNameOf(t) = t

\* C9: a protocol name is derived for every declared name, the empty one
\* included, and every derived protocol name has no leading digit and no
\* character outside the identifier grammar.
C9_ValidProtocolName ==
    /\ pc # "panic"
    /\ \A n \in Visited : ValidIdentifier(globalConfig.Peers[n].ProtocolName)

====
